---------------------------- MODULE Spec2Model ----------------------------
(***************************************************************************)
(* A model of univariate_analysis.py: the two null summarizers             *)
(* (summarize_column_nulls, summarize_row_nulls) over a tabular dataset,   *)
(* and the two grid renderers (get_hist, get_box) with the subplot grid    *)
(* builder (_create_sub_plots) over pyplot's implicit current figure.      *)
(*                                                                         *)
(* SpecNulls explores the summarizers over every dataset within the        *)
(* bounds; SpecPlot explores calls of the renderers, run one after the     *)
(* other or interleaved statement by statement.                            *)
(***************************************************************************)
EXTENDS Integers, Sequences, FiniteSets, TLC

\* Bounds of the model.
MaxRows == 3
MaxCols == 2
MaxColumns == 4

VARIABLES
    \* ---- the dataset and the summarizers' returned values
    df,           \* the caller's dataset: [columns: Seq(name), rows: Seq(Seq(cell))]
    orig,         \* history: the dataset as it was when the caller built it
    colResult,    \* <<>> or <<r>>: the latest value summarize_column_nulls returned
    prevCol,      \* <<>> or <<r>>: the value its call before that returned
    rowResult,    \* <<>> or <<r>>: the latest value summarize_row_nulls returned
    prevRow,      \* <<>> or <<r>>: the value its call before that returned
    \* ---- pyplot's global state and the renderer calls
    discipline,   \* "sequential" | "interleaved": how the caller schedules calls
    backendCloses,\* whether the backend's show() closes the figures it displayed
    figures,      \* every figure ever created, by number
    curFig,       \* pyplot's current figure (0: none)
    pc,           \* each call's position in get_hist / get_box
    kind,         \* each call's function: "hist" | "box"
    columns,      \* each call's `columns` argument
    index,        \* each call's loop variable
    fig,          \* each call's local `fig` (0: not yet assigned)
    ax,           \* each call's local `ax`: the shape of the returned array
    drawn,        \* plots drawn: [fig, cell, by, column, kind]
    ticked,       \* tick_params applications: [fig, cell, by]
    titles,       \* the title of each titled axes: <<fig, cell>> -> column
    applied,      \* pyplot-level operations applied: [op, by, fig, cell]
    displayed     \* figures a show() has displayed

nullVars == <<df, orig, colResult, prevCol, rowResult, prevRow>>
plotVars == <<discipline, backendCloses, figures, curFig, pc, kind, columns,
              index, fig, ax, drawn, ticked, titles, applied, displayed>>
vars == <<nullVars, plotVars>>

-----------------------------------------------------------------------------
(* The tabular dataset.                                                    *)

NA == "NA"
Cells == {NA, "v"}

\* Column labels: the dataset's columns are named 1, 2, ... in order.
ColumnLabels(c) == [j \in 1..c |-> j]

DataFrames ==
    UNION { UNION { { [columns |-> ColumnLabels(c), rows |-> m] :
                        m \in [1..r -> [1..c -> Cells]] } :
                    c \in 0..MaxCols } :
            r \in 0..MaxRows }

nrows(d) == Len(d.rows)
ncols(d) == Len(d.columns)

-----------------------------------------------------------------------------
(* Floating point quotients sum/count, as pandas' mean computes them: the  *)
(* quotient of two small integers, held in lowest terms so that equal      *)
(* quotients are equal values; 0/0 is NaN.                                 *)

RECURSIVE GCD(_, _)
GCD(a, b) == IF b = 0 THEN a ELSE GCD(b, a % b)

NaN == [num |-> 0, den |-> 0]

Quotient(s, n) ==
    IF n = 0 THEN NaN
    ELSE LET g == GCD(s, n) IN [num |-> s \div g, den |-> n \div g]

IsNaN(q) == q.den = 0
FracLess(p, q) == p.num * q.den < q.num * p.den

-----------------------------------------------------------------------------
(* pandas primitives the summarizers use.                                  *)

\* The mutant of isnull: notnull.
notnull(cell) == cell # NA

\* DataFrame.isnull(), one cell.
isnull(cell) == cell = NA

\* Sum of a sequence of booleans (True counts 1), folded left to right.
RECURSIVE SumBool(_)
SumBool(s) ==
    IF s = <<>> THEN 0
    ELSE (IF Head(s) THEN 1 ELSE 0) + SumBool(Tail(s))

ColumnMask(d, j) == [i \in 1..nrows(d) |-> isnull(d.rows[i][j])]
RowMask(d, i) == [j \in 1..ncols(d) |-> isnull(d.rows[i][j])]

\* df.isnull().sum(): per column, the number of True cells.
isnull_sum(d) == [j \in 1..ncols(d) |-> SumBool(ColumnMask(d, j))]

\* The mutant of isnull_mean: the mean taken over the wrong axis length.
isnull_mean_wrong_axis(d) ==
    [j \in 1..ncols(d) |-> Quotient(SumBool(ColumnMask(d, j)), ncols(d))]

\* df.isnull().mean(): per column, sum / number of rows (NaN with no rows).
isnull_mean(d) ==
    [j \in 1..ncols(d) |-> Quotient(SumBool(ColumnMask(d, j)), nrows(d))]

\* df.isnull().sum(axis = 1): per row, the number of True cells.
isnull_sum_axis1(d) == [i \in 1..nrows(d) |-> SumBool(RowMask(d, i))]

\* df.isnull().mean(axis = 1): per row, sum / number of columns.
isnull_mean_axis1(d) ==
    [i \in 1..nrows(d) |-> Quotient(SumBool(RowMask(d, i)), ncols(d))]

\* pd.concat([...rename('rows_missing'), ...rename('percent_missing')], axis = 1):
\* both series carry the dataset's column index, which the frame keeps.
summarize_column_nulls(d) ==
    LET s == isnull_sum(d)
        m == isnull_mean(d)
    IN  [j \in 1..ncols(d) |->
            [column |-> d.columns[j],
             rows_missing |-> s[j],
             percent_missing |-> m[j]]]

\* The per-row frame of summarize_row_nulls, before value_counts.
row_frame(d) ==
    LET s == isnull_sum_axis1(d)
        m == isnull_mean_axis1(d)
    IN  [i \in 1..nrows(d) |->
            [columns_missing |-> s[i], percent_missing |-> m[i]]]

KeyLess(a, b) ==
    \/ a.columns_missing < b.columns_missing
    \/ /\ a.columns_missing = b.columns_missing
       /\ FracLess(a.percent_missing, b.percent_missing)

\* Insert entry e into s, which is ascending by key.
RECURSIVE InsertByKey(_, _)
InsertByKey(e, s) ==
    IF s = <<>> THEN <<e>>
    ELSE IF KeyLess(e, Head(s)) THEN <<e>> \o s
    ELSE <<Head(s)>> \o InsertByKey(e, Tail(s))

\* Insert entry e into s, which is descending by count; e goes after its ties.
RECURSIVE InsertByCount(_, _)
InsertByCount(e, s) ==
    IF s = <<>> THEN <<e>>
    ELSE IF e.count > Head(s).count THEN <<e>> \o s
    ELSE <<Head(s)>> \o InsertByCount(e, Tail(s))

RECURSIVE SortByKey(_)
SortByKey(s) ==
    IF s = <<>> THEN <<>> ELSE InsertByKey(Head(s), SortByKey(Tail(s)))

RECURSIVE SortByCount(_)
SortByCount(s) ==
    IF s = <<>> THEN <<>>
    ELSE LET n == Len(s)
         IN  InsertByCount(s[n], SortByCount(SubSeq(s, 1, n - 1)))

\* A set of entries with distinct keys, as a sequence ascending by key.
RECURSIVE SeqOfSet(_)
SeqOfSet(S) ==
    IF S = {} THEN <<>>
    ELSE LET e == CHOOSE x \in S : \A y \in S \ {x} : KeyLess(x, y)
         IN  <<e>> \o SeqOfSet(S \ {e})

\* DataFrame.value_counts(): rows holding a NaN are dropped (dropna = True),
\* the rest grouped by identical rows (groupby: keys ascending) and the
\* group sizes sorted descending (sort = True, ascending = False).
value_counts(frame) ==
    LET kept == { i \in DOMAIN frame : ~IsNaN(frame[i].percent_missing) }
        keys == { frame[i] : i \in kept }
        sizes == { [columns_missing |-> k.columns_missing,
                    percent_missing |-> k.percent_missing,
                    count |-> Cardinality({ i \in kept : frame[i] = k })] :
                   k \in keys }
    IN  SortByCount(SeqOfSet(sizes))

\* The mutant of sort_index: the call left out.
sort_index_omitted(s) == s

\* Series.sort_index(): ascending by the (columns_missing, percent_missing) key.
sort_index(s) == SortByKey(s)

summarize_row_nulls(d) == sort_index(value_counts(row_frame(d)))


-----------------------------------------------------------------------------
(* The renderers' state when no call has been made.                        *)

Calls == {1, 2}

PlotIdle ==
    /\ figures = <<>>
    /\ curFig = 0
    /\ pc = [c \in Calls |-> "idle"]
    /\ kind = [c \in Calls |-> "hist"]
    /\ columns = [c \in Calls |-> <<>>]
    /\ index = [c \in Calls |-> 0]
    /\ fig = [c \in Calls |-> 0]
    /\ ax = [c \in Calls |-> <<>>]
    /\ drawn = {}
    /\ ticked = {}
    /\ titles = <<>>
    /\ applied = {}
    /\ displayed = {}

-----------------------------------------------------------------------------
(* The summarizers, called on the caller's dataset.                        *)

InitNulls ==
    /\ df \in DataFrames
    /\ orig = df
    /\ colResult = <<>>
    /\ prevCol = <<>>
    /\ rowResult = <<>>
    /\ prevRow = <<>>
    /\ discipline = "sequential"
    /\ backendCloses = FALSE
    /\ PlotIdle

\* The mutant of CallColumnNulls: the null mask is written back into df.
CallColumnNullsInPlace ==
    /\ prevCol' = colResult
    /\ colResult' = <<summarize_column_nulls(df)>>
    /\ df' = [df EXCEPT !.rows =
                [i \in 1..nrows(df) |-> [j \in 1..ncols(df) |-> "v"]]]
    /\ UNCHANGED <<orig, rowResult, prevRow, plotVars>>

\* A call summarize_column_nulls(df): the value is returned, df is only read.
CallColumnNulls ==
    /\ prevCol' = colResult
    /\ colResult' = <<summarize_column_nulls(df)>>
    /\ UNCHANGED <<df, orig, rowResult, prevRow, plotVars>>

\* A call summarize_row_nulls(df): the value is returned, df is only read.
CallRowNulls ==
    /\ prevRow' = rowResult
    /\ rowResult' = <<summarize_row_nulls(df)>>
    /\ UNCHANGED <<df, orig, colResult, prevCol, plotVars>>

NextNulls == CallColumnNulls \/ CallRowNulls

SpecNulls == InitNulls /\ [][NextNulls]_vars

-----------------------------------------------------------------------------
(* What the summaries are checked against: the dataset's cells, counted    *)
(* directly.                                                               *)

NullsInColumn(d, j) == Cardinality({ i \in 1..nrows(d) : d.rows[i][j] = NA })
NullsInRow(d, i) == Cardinality({ j \in 1..ncols(d) : d.rows[i][j] = NA })
NoNulls(d) == \A i \in 1..nrows(d) : \A j \in 1..ncols(d) : d.rows[i][j] # NA

\* q is the real number s / n, within [0, 1].
IsFraction(q, s, n) ==
    /\ q.den > 0
    /\ q.num * n = s * q.den
    /\ 0 <= q.num /\ q.num <= q.den

IsZero(q) == q.den > 0 /\ q.num = 0

RECURSIVE SumCounts(_)
SumCounts(s) == IF s = <<>> THEN 0 ELSE Head(s).count + SumCounts(Tail(s))

\* Row j of a column summary names column j and counts its null cells.
ColumnRowCounts(r, d) ==
    /\ Len(r) = ncols(d)
    /\ \A j \in 1..ncols(d) :
          /\ r[j].column = d.columns[j]
          /\ r[j].rows_missing = NullsInColumn(d, j)
          /\ r[j].rows_missing >= 0

ColumnRowFractions(r, d) ==
    \A j \in 1..Len(r) :
        IsFraction(r[j].percent_missing, r[j].rows_missing, nrows(d))

\* s holds one entry per distinct per-row pair of d, with the number of rows
\* having it, ascending by columns_missing, then percent_missing.
RowGroupsOf(s, d) ==
    LET K == { NullsInRow(d, i) : i \in 1..nrows(d) }
    IN  /\ Len(s) = Cardinality(K)
        /\ \A k \in K : \E n \in 1..Len(s) :
              /\ s[n].columns_missing = k
              /\ IsFraction(s[n].percent_missing, k, ncols(d))
              /\ s[n].count = Cardinality({ i \in 1..nrows(d) : NullsInRow(d, i) = k })
        /\ SumCounts(s) = nrows(d)
        /\ \A n \in 1..(Len(s) - 1) : KeyLess(s[n], s[n + 1])

C4_RowGroupsEveryDataset ==
    rowResult # <<>> => RowGroupsOf(rowResult[1], df)

\* C4 (amended): the same for every dataset with at least one column; with
\* no column every row's pair holds a NaN and the result is empty.
C4_RowGroups ==
    rowResult # <<>> =>
        /\ ncols(df) >= 1 => RowGroupsOf(rowResult[1], df)
        /\ ncols(df) = 0 => rowResult[1] = <<>>

C4_Witness ==
    /\ rowResult # <<>>
    /\ Len(rowResult[1]) = 2
    /\ rowResult[1][1].columns_missing = 0
    /\ rowResult[1][1].count = 1
    /\ rowResult[1][2].count = 2

-----------------------------------------------------------------------------
(* matplotlib: figures, the current figure, plt.subplots.                  *)

\* The figure plt.subplots(nrows, ncols, figsize = (w, h)) creates for call
\* c; each add_subplot makes its axes current, so the last cell ends current.
SubplotsFigure(r, k, w, h, c) ==
    [nrows |-> r, ncols |-> k, figsize |-> <<w, h>>, by |-> c,
     cur |-> <<r - 1, k - 1>>, open |-> TRUE]

\* The figure plt.gcf() creates when none is open, with the single axes
\* plt.gca() adds to it; its size is rcParams' default.
ImplicitFigure ==
    [nrows |-> 1, ncols |-> 1, figsize |-> <<>>, by |-> 0,
     cur |-> <<0, 0>>, open |-> TRUE]

\* The shape of the array plt.subplots returns (squeeze = True, the default):
\* a lone Axes for 1x1, a 1-D array for one row or one column, else 2-D.
squeeze(r, k) ==
    IF r = 1 /\ k = 1 THEN <<>>
    ELSE IF r = 1 THEN <<k>>
    ELSE IF k = 1 THEN <<r>>
    ELSE <<r, k>>

\* ax[a][b] on an array of Axes of the given shape.
Subscript(shape, a, b) ==
    IF Len(shape) = 2
    THEN IF a < shape[1] /\ b < shape[2] THEN "ok" ELSE "IndexError"
    ELSE IF Len(shape) = 1
    THEN IF a < shape[1] THEN "TypeError" ELSE "IndexError"
    ELSE "TypeError"

\* plt.gcf(): the current figure, a new one when none is open.
GcfFigures == IF curFig = 0 THEN Append(figures, ImplicitFigure) ELSE figures
Gcf == IF curFig = 0 THEN Len(figures) + 1 ELSE curFig

-----------------------------------------------------------------------------
(* _create_sub_plots.                                                      *)

figure_width == 14
subplot_num_columns == 3

figure_height(num_features) == ((num_features \div 3) + 1) * 3

\* Mutants of num_rows: the ceiling, and the floor without its + 1.
num_rows_ceil(num_features) == (num_features + 2) \div 3
num_rows_floor(num_features) == num_features \div 3

num_rows(num_features) == num_features \div 3 + 1

-----------------------------------------------------------------------------
(* get_hist and get_box, statement by statement.                           *)

num_columns == 3

Finished(c) == pc[c] \in {"idle", "done", "raised"}

PlotData == [columns |-> ColumnLabels(MaxColumns), rows |-> <<>>]

InitPlot ==
    /\ df = PlotData
    /\ orig = df
    /\ colResult = <<>>
    /\ prevCol = <<>>
    /\ rowResult = <<>>
    /\ prevRow = <<>>
    /\ discipline \in {"sequential", "interleaved"}
    /\ backendCloses \in BOOLEAN
    /\ PlotIdle

\* The caller calls get_hist(df, columns) or get_box(df, columns); under the
\* sequential discipline only when no other call is under way.
Call(c) ==
    /\ pc[c] = "idle"
    /\ discipline = "sequential" => \A o \in Calls \ {c} : Finished(o)
    /\ \E k \in {"hist", "box"}, n \in 0..MaxColumns :
          /\ kind' = [kind EXCEPT ![c] = k]
          /\ columns' = [columns EXCEPT ![c] = SubSeq(df.columns, 1, n)]
    /\ pc' = [pc EXCEPT ![c] = "create"]
    /\ UNCHANGED <<nullVars, discipline, backendCloses, figures, curFig, index,
                   fig, ax, drawn, ticked, titles, applied, displayed>>

\* The mutant of CreateSubPlots: the figure is built outside pyplot, which
\* keeps the current figure it had.
CreateSubPlotsUnregistered(c) ==
    /\ pc[c] = "create"
    /\ LET n == Len(columns[c])
           f == SubplotsFigure(num_rows(n), subplot_num_columns,
                               figure_width, figure_height(n), c)
       IN  /\ figures' = Append(figures, f)
           /\ curFig' = IF curFig = 0 THEN Len(figures) + 1 ELSE curFig
           /\ fig' = [fig EXCEPT ![c] = Len(figures) + 1]
           /\ ax' = [ax EXCEPT ![c] = squeeze(num_rows(n), subplot_num_columns)]
           /\ pc' = [pc EXCEPT ![c] = "loop"]
    /\ UNCHANGED <<nullVars, discipline, backendCloses, kind, columns, index,
                   drawn, ticked, titles, applied, displayed>>

\* fig, ax = _create_sub_plots(len(columns)): plt.subplots raises ValueError
\* unless both counts are positive; the new figure becomes the current one.
CreateSubPlots(c) ==
    /\ pc[c] = "create"
    /\ LET n == Len(columns[c])
           r == num_rows(n)
           k == subplot_num_columns
       IN  IF r < 1 \/ k < 1
           THEN /\ pc' = [pc EXCEPT ![c] = "raised"]
                /\ UNCHANGED <<figures, curFig, fig, ax>>
           ELSE /\ figures' = Append(figures,
                       SubplotsFigure(r, k, figure_width, figure_height(n), c))
                /\ curFig' = Len(figures) + 1
                /\ fig' = [fig EXCEPT ![c] = Len(figures) + 1]
                /\ ax' = [ax EXCEPT ![c] = squeeze(r, k)]
                /\ pc' = [pc EXCEPT ![c] = "loop"]
    /\ UNCHANGED <<nullVars, discipline, backendCloses, kind, columns, index,
                   drawn, ticked, titles, applied, displayed>>

\* for index, column in enumerate(columns): the next column, or on to show.
LoopHead(c) ==
    /\ pc[c] = "loop"
    /\ pc' = [pc EXCEPT ![c] =
                IF index[c] < Len(columns[c]) THEN "draw" ELSE "show"]
    /\ UNCHANGED <<nullVars, discipline, backendCloses, figures, curFig, kind,
                   columns, index, fig, ax, drawn, ticked, titles, applied,
                   displayed>>

\* sns.histplot(..., ax = ax[index // num_columns][index % num_columns]) or
\* sns.boxplot(...): the subscript raises, or the plot is drawn into that
\* cell of the call's own figure; pyplot's current axes are not touched.
Draw(c) ==
    /\ pc[c] = "draw"
    /\ LET a == index[c] \div num_columns
           b == index[c] % num_columns
       IN  IF Subscript(ax[c], a, b) = "ok"
           THEN /\ drawn' = drawn \cup
                      {[fig |-> fig[c], cell |-> <<a, b>>, by |-> c,
                        column |-> columns[c][index[c] + 1], kind |-> kind[c]]}
                /\ pc' = [pc EXCEPT ![c] = "tick"]
           ELSE /\ pc' = [pc EXCEPT ![c] = "raised"]
                /\ UNCHANGED drawn
    /\ UNCHANGED <<nullVars, discipline, backendCloses, figures, curFig, kind,
                   columns, index, fig, ax, ticked, titles, applied, displayed>>

\* ax[index // num_columns][index % num_columns].tick_params(labelrotation = 30)
TickParams(c) ==
    /\ pc[c] = "tick"
    /\ LET a == index[c] \div num_columns
           b == index[c] % num_columns
       IN  IF Subscript(ax[c], a, b) = "ok"
           THEN /\ ticked' = ticked \cup
                      {[fig |-> fig[c], cell |-> <<a, b>>, by |-> c]}
                /\ pc' = [pc EXCEPT ![c] = "title"]
           ELSE /\ pc' = [pc EXCEPT ![c] = "raised"]
                /\ UNCHANGED ticked
    /\ UNCHANGED <<nullVars, discipline, backendCloses, figures, curFig, kind,
                   columns, index, fig, ax, drawn, titles, applied, displayed>>

\* A pyplot function acting on plt.gca(): the current axes of the current
\* figure, both created when no figure is open.
OnCurrentAxes(c, op, next) ==
    /\ figures' = GcfFigures
    /\ curFig' = Gcf
    /\ applied' = applied \cup
          {[op |-> op, by |-> c, fig |-> Gcf, cell |-> GcfFigures[Gcf].cur]}
    /\ pc' = [pc EXCEPT ![c] = next]

\* plt.title(column)
Title(c) ==
    /\ pc[c] = "title"
    /\ OnCurrentAxes(c, "title", "format")
    /\ titles' = (<<Gcf, GcfFigures[Gcf].cur>> :> columns[c][index[c] + 1]) @@ titles
    /\ UNCHANGED <<nullVars, discipline, backendCloses, kind, columns, index,
                   fig, ax, drawn, ticked, displayed>>

\* plt.ticklabel_format(useOffset = False)
TickLabelFormat(c) ==
    /\ pc[c] = "format"
    /\ OnCurrentAxes(c, "ticklabel_format", "grid")
    /\ UNCHANGED <<nullVars, discipline, backendCloses, kind, columns, index,
                   fig, ax, drawn, ticked, titles, displayed>>

\* plt.grid(False)
Grid(c) ==
    /\ pc[c] = "grid"
    /\ OnCurrentAxes(c, "grid", "layout")
    /\ UNCHANGED <<nullVars, discipline, backendCloses, kind, columns, index,
                   fig, ax, drawn, ticked, titles, displayed>>

\* plt.tight_layout(), on plt.gcf(); the loop body ends.
TightLayout(c) ==
    /\ pc[c] = "layout"
    /\ figures' = GcfFigures
    /\ curFig' = Gcf
    /\ applied' = applied \cup
          {[op |-> "tight_layout", by |-> c, fig |-> Gcf, cell |-> <<>>]}
    /\ index' = [index EXCEPT ![c] = index[c] + 1]
    /\ pc' = [pc EXCEPT ![c] = "loop"]
    /\ UNCHANGED <<nullVars, discipline, backendCloses, kind, columns, fig, ax,
                   drawn, ticked, titles, displayed>>

\* plt.show(): every open figure is displayed; a backend that closes what it
\* displayed leaves no figure open and no current figure.
Show(c) ==
    /\ pc[c] = "show"
    /\ displayed' = displayed \cup { f \in DOMAIN figures : figures[f].open }
    /\ IF backendCloses
       THEN /\ figures' = [f \in DOMAIN figures |->
                              [figures[f] EXCEPT !.open = FALSE]]
            /\ curFig' = 0
       ELSE UNCHANGED <<figures, curFig>>
    /\ pc' = [pc EXCEPT ![c] = "done"]
    /\ UNCHANGED <<nullVars, discipline, backendCloses, kind, columns, index,
                   fig, ax, drawn, ticked, titles, applied>>

NextPlot ==
    \E c \in Calls :
        \/ Call(c)
        \/ CreateSubPlots(c)
        \/ LoopHead(c)
        \/ Draw(c)
        \/ TickParams(c)
        \/ Title(c)
        \/ TickLabelFormat(c)
        \/ Grid(c)
        \/ TightLayout(c)
        \/ Show(c)

SpecPlot == InitPlot /\ [][NextPlot]_vars

-----------------------------------------------------------------------------
(* Properties of the grid builder and the renderers.                       *)

Created(c) == fig[c] # 0
FeatureCount(c) == Len(columns[c])
TitleOf(f, cell) == IF <<f, cell>> \in DOMAIN titles THEN titles[<<f, cell>>] ELSE 0
Ceil3(n) == (n + 2) \div 3

\* C1: for every feature count n, _create_sub_plots(n) returns a 2-D array
\* of floor(n/3) + 1 rows and 3 columns, on a canvas 14 wide and
\* (floor(n/3) + 1) * 3 high.
C1_GridIsTwoDimensional ==
    \A c \in Calls :
        Created(c) =>
            LET n == FeatureCount(c)
            IN  /\ ax[c] = <<n \div 3 + 1, 3>>
                /\ figures[fig[c]].figsize = <<14, (n \div 3 + 1) * 3>>

\* C2 (as stated): for every feature count the grid has 3 columns and
\* ceil(count / 3) rows.
C2_RowsAreCeiling ==
    \A c \in Calls :
        Created(c) =>
            /\ figures[fig[c]].ncols = 3
            /\ figures[fig[c]].nrows = Ceil3(FeatureCount(c))

\* C2 (amended): for every feature count the grid has 3 columns and
\* floor(count / 3) + 1 rows: ceil(count / 3) when count is no multiple of 3,
\* one more than that when it is.
C2_RowsAreFloorPlusOne ==
    \A c \in Calls :
        pc[c] \notin {"idle", "create"} =>
            LET n == FeatureCount(c)
            IN  /\ Created(c)
                /\ figures[fig[c]].ncols = 3
                /\ figures[fig[c]].nrows = n \div 3 + 1
                /\ figures[fig[c]].nrows =
                      IF n % 3 = 0 THEN Ceil3(n) + 1 ELSE Ceil3(n)

C2_Witness ==
    \E c, o \in Calls :
        /\ Created(c) /\ FeatureCount(c) = 3 /\ figures[fig[c]].nrows = 2
        /\ Created(o) /\ FeatureCount(o) = 2 /\ figures[fig[o]].nrows = 1

\* C7: a call of get_hist or get_box with an empty column list never raises
\* and never enters the loop body: it allocates a 1x3 grid, nothing is drawn
\* into its figure, and it ends past the display step with the figure shown.
C7_EmptyColumnList ==
    \A c \in Calls :
        (pc[c] # "idle" /\ columns[c] = <<>>) =>
            /\ pc[c] \in {"create", "loop", "show", "done"}
            /\ pc[c] # "create" =>
                  /\ Created(c)
                  /\ figures[fig[c]].nrows = 1
                  /\ figures[fig[c]].ncols = 3
                  /\ ~\E d \in drawn \cup ticked : d.fig = fig[c] \/ d.by = c
                  /\ ~\E a \in applied : a.by = c
            /\ pc[c] = "done" => fig[c] \in displayed

C7_Witness ==
    \E c \in Calls, k \in {"hist", "box"} :
        /\ columns[c] = <<>>
        /\ kind[c] = k
        /\ pc[c] = "done"
        /\ fig[c] \in displayed
        /\ figures[fig[c]].nrows = 1

\* C8: under the sequential discipline every title, tick-format, grid and
\* layout operation of a call is applied to the figure that call created.
C8_SequentialCallsKeepToOwnFigure ==
    discipline = "sequential" =>
        \A a \in applied : a.fig = fig[a.by]

\* C8, the interleaved half: an operation issued by one call has been
\* applied to the figure the other call created.
C8_Witness ==
    /\ discipline = "interleaved"
    /\ \E a \in applied :
          /\ a.fig # fig[a.by]
          /\ figures[a.fig].by \in Calls \ {a.by}

\* C9: once a call has ended, every cell it drew into is titled with the
\* name of the column drawn there.
C9_TitleOnDrawnCell ==
    \A d \in drawn :
        pc[d.by] = "done" => TitleOf(d.fig, d.cell) = d.column

\* C10: for a column list of length n >= 1 and every position i < n, the
\* cell (i // 3, i % 3) exists in the array _create_sub_plots(n) returned and
\* is reached with two subscripts; no call raises on its subscripts, and
\* every cell drawn into has a linear index below n.
C10_CellsAddressable ==
    \A c \in Calls :
        /\ (Created(c) /\ FeatureCount(c) >= 1) =>
              \A i \in 0..(FeatureCount(c) - 1) :
                  Subscript(ax[c], i \div 3, i % 3) = "ok"
        /\ pc[c] # "raised"
        /\ \A d \in drawn :
              d.by = c => d.cell[1] * 3 + d.cell[2] < FeatureCount(c)

=============================================================================
